---- MODULE Spec2Model ----
(***************************************************************************)
(* Model of src/src/exercise.ts: the swap workflow performSwapAsync and    *)
(* its helpers.  The file holds two definitions of performSwapAsync        *)
(* (lines 108-173 and lines 238-294); `version` says which one an          *)
(* invocation runs.  The token contract, the quote API and the chain       *)
(* client are the environment: every awaited call either resolves with a   *)
(* value drawn from a small set or rejects with an error.                  *)
(*                                                                         *)
(* Each action is one continuation of the async function: it consumes the  *)
(* result of the pending await, runs the synchronous code up to the next   *)
(* await and issues the call that await waits for.                         *)
(*                                                                         *)
(* Unit amounts are whole numbers of human units, for which                *)
(* Web3Wrapper.toBaseUnitAmount is unitAmount * 10^decimals.               *)
(***************************************************************************)
EXTENDS Integers, Sequences, FiniteSets, TLC

\* ------------------------------------------------------------------ bounds
MaxInvocations == 2
MaxDecimals == 1

\* ------------------------------------------------------- input value sets
Tokens == {"0xDAI", "0xWETH"}
Owners == {"0xTaker"}
UnitAmounts == {9, 10, 1000}
BalanceValues == {9, 10, 5000}
AllowanceValues == {0, 9}
Errors == {"TransportError", "ChainRejection"}
QuoteResponses ==
    [from : {"0xTaker", "0xForwarder"}, to : {"0xExchange"},
     data : {"0xd1", "0xd2"}, gas : {"200000"}, gasPrice : {"8000000000"},
     value : {"0"}, orders : {<<>>, <<"order1">>}]

\* ------------------------------------------------------ program constants
erc20Proxy == "0xErc20Proxy"
url == "https://kovan.api.0x.org/swap/v0/quote"
FallbackUnitAmount == 300
SlippagePercentage == "0.01"
EIGHT_GWEI_IN_WEI == <<8, 0, 0, 0, 0, 0, 0, 0, 0, 0>>
InsufficientFundsError == "Insufficient funds."
NoError == "none"
NoResponse ==
    [from |-> "", to |-> "", data |-> "", gas |-> "", gasPrice |-> "",
     value |-> "", orders |-> <<>>]
NoTxData ==
    [from |-> "", to |-> "", data |-> "", gas |-> "", gasPrice |-> "", value |-> ""]

VARIABLES
    decimals,       \* token -> decimals() of the token contract
    balance,        \* <<token, owner>> -> balanceOf(owner)
    allowance,      \* <<token, owner>> -> allowance(owner, erc20Proxy)
    invocations,    \* number of invocations of performSwapAsync so far
    version,        \* 1: definition at lines 108-173, 2: definition at lines 238-294
    pc,             \* the await the invocation is suspended at, "idle" or "done"
    buyToken, sellToken, amountToSellUnitAmount, fromAddress,    \* the arguments
    amountToSellInBaseUnits,
    sellTokenBalanceInBaseUnit,
    currentAllowanceInBaseUnitAmount,
    httpResponse,
    txData,
    approvals,      \* approve transactions submitted by this invocation
    requests,       \* HTTP GET requests issued by this invocation
    sent,           \* transactions handed to sendTransactionAsync by this invocation
    trace,          \* <<call, phase>> events of this invocation, in order
    alerted,        \* alert("Insufficient funds") was shown
    outcome,        \* "pending", "resolved" or "rejected": the returned promise
    error,          \* the error the returned promise rejected with
    raised          \* the error the failing collaborator call raised

ledger == <<decimals, balance, allowance>>
args == <<version, buyToken, sellToken, amountToSellUnitAmount, fromAddress>>
locals == <<amountToSellInBaseUnits, sellTokenBalanceInBaseUnit,
            currentAllowanceInBaseUnitAmount, httpResponse, txData>>
calls == <<approvals, requests, sent>>
result == <<alerted, outcome, error, raised>>
vars == <<ledger, invocations, pc, args, locals, calls, trace, result>>

\* --------------------------------------------------------------- helpers
RECURSIVE Pow10(_)
Pow10(n) == IF n = 0 THEN 1 ELSE 10 * Pow10(n - 1)

\* Web3Wrapper.toBaseUnitAmount(unitAmount, decimals) for a whole unitAmount
toBaseUnitAmount(unitAmount, dec) == unitAmount * Pow10(dec)

\* convertValueFromHumanToEthereum once decimals().callAsync() resolved with dec
convertValueFromHumanToEthereum(dec, unitAmount) == toBaseUnitAmount(unitAmount, dec)

\* BigNumber.toString(): the decimal digits, most significant first
RECURSIVE toString(_)
toString(n) == IF n < 10 THEN <<n>> ELSE Append(toString(n \div 10), n % 10)

\* BigNumber.valueOf(): the same string as toString() for non-negative values
valueOf(n) == toString(n)

\* s < t on strings: the first differing character decides, a proper prefix is less
RECURSIVE StringLess(_, _)
StringLess(s, t) ==
    IF t = <<>> THEN FALSE
    ELSE IF s = <<>> THEN TRUE
    ELSE IF Head(s) # Head(t) THEN Head(s) < Head(t)
    ELSE StringLess(Tail(s), Tail(t))

\* a.gt(b) of BigNumber: numeric comparison
gt(a, b) == a > b

\* `a > b` on two BigNumber objects: both operands are converted by valueOf(),
\* which yields strings, and two strings compare as strings
RelationalGreater(a, b) == StringLess(valueOf(b), valueOf(a))

\* `a < b` on two BigNumber objects
RelationalLess(a, b) == StringLess(valueOf(a), valueOf(b))

\* Check #1: line 126 (version 1) and line 251 (version 2)
ExceedsBalance(v, amount, bal) ==
    IF v = 1 THEN gt(amount, bal) ELSE RelationalGreater(amount, bal)

\* Check #2: line 135 (version 1) and line 257 (version 2)
NeedsApproval(v, amount, allow) ==
    IF v = 1 THEN gt(amount, allow) ELSE RelationalLess(allow, amount)

\* the query parameters of the quote request
QuoteParams(v, buy, sell, amount, from) ==
    IF v = 1
    THEN [buyToken |-> buy, sellToken |-> sell, sellAmount |-> toString(amount),
          takerAddress |-> from]
    ELSE [buyToken |-> buy, sellToken |-> sell, sellAmount |-> toString(amount),
          takerAddress |-> from, slippagePercentage |-> SlippagePercentage,
          gasPrice |-> EIGHT_GWEI_IN_WEI]

\* the TxData built from the quote response
TxDataOf(resp) ==
    [from |-> resp.from, to |-> resp.to, data |-> resp.data, gas |-> resp.gas,
     gasPrice |-> resp.gasPrice, value |-> resp.value]

Event(call, phase) == <<call, phase>>
Range(s) == {s[i] : i \in 1..Len(s)}
Happened(call, phase) == Event(call, phase) \in Range(trace)

\* ------------------------------------------------------------------ Init
Init ==
    /\ decimals \in [Tokens -> 0..MaxDecimals]
    /\ balance \in [Tokens \X Owners -> BalanceValues]
    /\ allowance \in [Tokens \X Owners -> AllowanceValues]
    /\ invocations = 0
    /\ version = 1
    /\ pc = "idle"
    /\ buyToken = "0xWETH"
    /\ sellToken = "0xDAI"
    /\ amountToSellUnitAmount = 0
    /\ fromAddress = "0xTaker"
    /\ amountToSellInBaseUnits = 0
    /\ sellTokenBalanceInBaseUnit = 0
    /\ currentAllowanceInBaseUnitAmount = 0
    /\ httpResponse = NoResponse
    /\ txData = NoTxData
    /\ approvals = <<>>
    /\ requests = <<>>
    /\ sent = <<>>
    /\ trace = <<>>
    /\ alerted = FALSE
    /\ outcome = "pending"
    /\ error = NoError
    /\ raised = NoError

\* --------------------------------------------------------------- actions

\* The call of performSwapAsync up to its first await: decimals().callAsync()
\* inside convertValueFromHumanToEthereum.
performSwapAsync ==
    /\ pc \in {"idle", "done"}
    /\ invocations < MaxInvocations
    /\ \E v \in {1, 2}, sell \in Tokens, buy \in Tokens, h \in UnitAmounts, from \in Owners :
        /\ buy # sell
        /\ version' = v
        /\ sellToken' = sell
        /\ buyToken' = buy
        /\ amountToSellUnitAmount' = h
        /\ fromAddress' = from
    /\ invocations' = invocations + 1
    /\ pc' = "decimals"
    /\ amountToSellInBaseUnits' = 0
    /\ sellTokenBalanceInBaseUnit' = 0
    /\ currentAllowanceInBaseUnitAmount' = 0
    /\ httpResponse' = NoResponse
    /\ txData' = NoTxData
    /\ approvals' = <<>>
    /\ requests' = <<>>
    /\ sent' = <<>>
    /\ trace' = <<Event("decimals", "issued")>>
    /\ alerted' = FALSE
    /\ outcome' = "pending"
    /\ error' = NoError
    /\ raised' = NoError
    /\ UNCHANGED ledger

\* decimals() resolved: the amount is converted and balanceOf is called.
DecimalsResolved ==
    /\ pc = "decimals"
    /\ amountToSellInBaseUnits' =
           convertValueFromHumanToEthereum(decimals[sellToken], amountToSellUnitAmount)
    /\ trace' = trace \o <<Event("decimals", "ok"), Event("balanceOf", "issued")>>
    /\ pc' = "balanceOf"
    /\ UNCHANGED <<ledger, invocations, args, sellTokenBalanceInBaseUnit,
                   currentAllowanceInBaseUnitAmount, httpResponse, txData, calls, result>>

\* balanceOf resolved: check #1, then allowance is called.
BalanceResolved ==
    /\ pc = "balanceOf"
    /\ sellTokenBalanceInBaseUnit' = balance[<<sellToken, fromAddress>>]
    /\ IF ExceedsBalance(version, amountToSellInBaseUnits, sellTokenBalanceInBaseUnit')
       THEN /\ trace' = Append(trace, Event("balanceOf", "ok"))
            /\ pc' = "done"
            /\ IF version = 1
               THEN /\ alerted' = TRUE
                    /\ outcome' = "resolved"
                    /\ error' = NoError
               ELSE /\ alerted' = FALSE
                    /\ outcome' = "rejected"
                    /\ error' = InsufficientFundsError
       ELSE /\ trace' = trace \o <<Event("balanceOf", "ok"), Event("allowance", "issued")>>
            /\ pc' = "allowance"
            /\ UNCHANGED <<alerted, outcome, error>>
    /\ UNCHANGED <<ledger, invocations, args, amountToSellInBaseUnits,
                   currentAllowanceInBaseUnitAmount, httpResponse, txData, calls, raised>>

\* The quote request issued at lines 148-155 / 267-276.
IssueQuote(after) ==
    /\ requests' = Append(requests,
           [url |-> url,
            params |-> QuoteParams(version, buyToken, sellToken,
                                   amountToSellInBaseUnits, fromAddress)])
    /\ trace' = trace \o <<after, Event("get", "issued")>>
    /\ pc' = "get"

\* allowance resolved: check #2; either decimals() is read again for the
\* fallback allowance, or the quote is requested.
AllowanceResolved ==
    /\ pc = "allowance"
    /\ currentAllowanceInBaseUnitAmount' = allowance[<<sellToken, fromAddress>>]
    /\ IF NeedsApproval(version, amountToSellInBaseUnits, currentAllowanceInBaseUnitAmount')
       THEN /\ trace' = trace \o <<Event("allowance", "ok"), Event("decimals", "issued")>>
            /\ pc' = "decimals300"
            /\ UNCHANGED requests
       ELSE IssueQuote(Event("allowance", "ok"))
    /\ UNCHANGED <<ledger, invocations, args, amountToSellInBaseUnits,
                   sellTokenBalanceInBaseUnit, httpResponse, txData, approvals, sent, result>>

\* Mutation of setAllowance: approves the requested amount, not the fallback.
setAllowance_RequestedAmount ==
    /\ pc = "decimals300"
    /\ approvals' = Append(approvals,
           [token |-> sellToken, spender |-> erc20Proxy, from |-> fromAddress,
            amount |-> amountToSellInBaseUnits])
    /\ trace' = trace \o <<Event("decimals", "ok"), Event("approve", "issued")>>
    /\ pc' = "approve"
    /\ UNCHANGED <<ledger, invocations, args, locals, requests, sent, result>>

\* decimals() resolved for the fallback allowance: approve is submitted.
setAllowance ==
    /\ pc = "decimals300"
    /\ approvals' = Append(approvals,
           [token |-> sellToken, spender |-> erc20Proxy, from |-> fromAddress,
            amount |-> convertValueFromHumanToEthereum(decimals[sellToken],
                                                       FallbackUnitAmount)])
    /\ trace' = trace \o <<Event("decimals", "ok"), Event("approve", "issued")>>
    /\ pc' = "approve"
    /\ UNCHANGED <<ledger, invocations, args, locals, requests, sent, result>>

\* awaitTransactionSuccessAsync resolved: the allowance is on chain and the
\* quote is requested.
ApproveResolved ==
    /\ pc = "approve"
    /\ allowance' = [allowance EXCEPT
           ![<<approvals[Len(approvals)].token, approvals[Len(approvals)].from>>] =
               approvals[Len(approvals)].amount]
    /\ IssueQuote(Event("approve", "ok"))
    /\ UNCHANGED <<decimals, balance, invocations, args, locals, approvals, sent, result>>

\* Mutation of QuoteResolved: a response without orders is treated as an error
\* and nothing is submitted.
QuoteResolved_RejectsEmptyOrders ==
    /\ pc = "get"
    /\ \E resp \in QuoteResponses : httpResponse' = resp
    /\ txData' = TxDataOf(httpResponse')
    /\ IF httpResponse'.orders = <<>>
       THEN /\ sent' = sent
            /\ trace' = Append(trace, Event("get", "ok"))
            /\ pc' = "done"
            /\ outcome' = "rejected"
            /\ error' = "No orders"
       ELSE /\ sent' = Append(sent, txData')
            /\ trace' = trace \o <<Event("get", "ok"), Event("sendTransaction", "issued")>>
            /\ pc' = "sendTransaction"
            /\ UNCHANGED <<outcome, error>>
    /\ UNCHANGED <<ledger, invocations, args, amountToSellInBaseUnits,
                   sellTokenBalanceInBaseUnit, currentAllowanceInBaseUnitAmount,
                   approvals, requests, alerted, raised>>

\* axios.get resolved: txData is built and handed to sendTransactionAsync.
QuoteResolved ==
    /\ pc = "get"
    /\ \E resp \in QuoteResponses : httpResponse' = resp
    /\ txData' = TxDataOf(httpResponse')
    /\ sent' = Append(sent, txData')
    /\ trace' = trace \o <<Event("get", "ok"), Event("sendTransaction", "issued")>>
    /\ pc' = "sendTransaction"
    /\ UNCHANGED <<ledger, invocations, args, amountToSellInBaseUnits,
                   sellTokenBalanceInBaseUnit, currentAllowanceInBaseUnitAmount,
                   approvals, requests, result>>

\* sendTransactionAsync resolved: the function returns.
SendResolved ==
    /\ pc = "sendTransaction"
    /\ trace' = Append(trace, Event("sendTransaction", "ok"))
    /\ pc' = "done"
    /\ outcome' = "resolved"
    /\ UNCHANGED <<ledger, invocations, args, locals, calls, alerted, error, raised>>

\* Mutation of AwaitRejected: the error is caught and a new one is thrown.
AwaitRejected_Wrapped ==
    /\ pc \in {"decimals", "balanceOf", "allowance", "decimals300", "approve",
               "get", "sendTransaction"}
    /\ \E e \in Errors : raised' = e
    /\ error' = "Swap failed"
    /\ outcome' = "rejected"
    /\ trace' = Append(trace, Event(trace[Len(trace)][1], "failed"))
    /\ pc' = "done"
    /\ UNCHANGED <<ledger, invocations, args, locals, calls, alerted>>

\* Mutation of AwaitRejected: a failure after a confirmed approval revokes the
\* allowance before the error is rethrown.
AwaitRejected_Revokes ==
    /\ pc \in {"decimals", "balanceOf", "allowance", "decimals300", "approve",
               "get", "sendTransaction"}
    /\ \E e \in Errors :
        /\ raised' = e
        /\ error' = e
    /\ outcome' = "rejected"
    /\ IF Happened("approve", "ok")
       THEN /\ allowance' = [allowance EXCEPT ![<<sellToken, fromAddress>>] = 0]
            /\ approvals' = Append(approvals,
                   [token |-> sellToken, spender |-> erc20Proxy,
                    from |-> fromAddress, amount |-> 0])
            /\ trace' = trace \o <<Event(trace[Len(trace)][1], "failed"),
                                   Event("approve", "issued"), Event("approve", "ok")>>
       ELSE /\ UNCHANGED <<allowance, approvals>>
            /\ trace' = Append(trace, Event(trace[Len(trace)][1], "failed"))
    /\ pc' = "done"
    /\ UNCHANGED <<decimals, balance, invocations, args, locals, requests, sent, alerted>>

\* The pending await rejects: nothing catches, so the returned promise rejects
\* with the same error and no later statement runs.
AwaitRejected ==
    /\ pc \in {"decimals", "balanceOf", "allowance", "decimals300", "approve",
               "get", "sendTransaction"}
    /\ \E e \in Errors :
        /\ raised' = e
        /\ error' = e
    /\ outcome' = "rejected"
    /\ trace' = Append(trace, Event(trace[Len(trace)][1], "failed"))
    /\ pc' = "done"
    /\ UNCHANGED <<ledger, invocations, args, locals, calls, alerted>>

Next ==
    \/ performSwapAsync
    \/ DecimalsResolved
    \/ BalanceResolved
    \/ AllowanceResolved
    \/ setAllowance
    \/ ApproveResolved
    \/ QuoteResolved
    \/ SendResolved
    \/ AwaitRejected

Spec == Init /\ [][Next]_vars

\* ------------------------------------------------------------ properties

Fallback(token) == 300 * Pow10(decimals[token])
Count(call, phase) == Cardinality({i \in 1..Len(trace) : trace[i] = Event(call, phase)})
BalanceChecked == Happened("balanceOf", "ok")
ReportedInsufficientFunds ==
    \/ outcome = "rejected" /\ error = InsufficientFundsError
    \/ alerted

\* C1: whenever the balance read is below the required base-unit amount, the
\* invocation ends reporting insufficient funds and has issued no approval, no
\* quote request and no transaction submission.
C1_InsufficientBalanceStopsWithoutCalls ==
    (BalanceChecked /\ sellTokenBalanceInBaseUnit < amountToSellInBaseUnits)
        => /\ ReportedInsufficientFunds
           /\ pc = "done"
           /\ approvals = <<>>
           /\ requests = <<>>
           /\ sent = <<>>

\* C2: once the balance check has passed (the balance read covers the required
\* amount) and the quote request is issued, one
\* approval has been submitted if the allowance read was below the required
\* amount, and none otherwise.
C2_ApprovalIffAllowanceBelowRequired ==
    (/\ Happened("get", "issued")
     /\ amountToSellInBaseUnits <= sellTokenBalanceInBaseUnit)
        => IF currentAllowanceInBaseUnitAmount < amountToSellInBaseUnits
           THEN Len(approvals) = 1
           ELSE Len(approvals) = 0

\* C3: every approval submitted is for 300 * 10^decimals of the sell token, to
\* the ERC20 proxy, from fromAddress; a quote request that follows an approval
\* is issued only after that approval was confirmed, with the allowance on chain.
C3_ApprovalIsFallbackConfirmedBeforeQuote ==
    /\ \A i \in 1..Len(approvals) :
        /\ approvals[i].amount = Fallback(sellToken)
        /\ approvals[i].spender = erc20Proxy
        /\ approvals[i].from = fromAddress
        /\ approvals[i].token = sellToken
    /\ \A i \in 1..Len(trace), j \in 1..Len(trace) :
        (j < i /\ trace[j] = Event("approve", "issued") /\ trace[i] = Event("get", "issued"))
            => /\ \E k \in (j + 1)..(i - 1) : trace[k] = Event("approve", "ok")
               /\ allowance[<<sellToken, fromAddress>>] = Fallback(sellToken)

C3_Witness ==
    /\ Happened("approve", "ok")
    /\ Happened("get", "issued")
    /\ decimals[sellToken] = 1
    /\ amountToSellUnitAmount = 10
    /\ Len(approvals) = 1

\* C4: every quote request is a GET of the quote url carrying sellToken,
\* buyToken, sellAmount (the decimal string of the amount compared against the
\* balance), takerAddress = fromAddress, slippagePercentage "0.01" and gasPrice
\* "8000000000".
C4_QuoteRequestCarriesSixParameters ==
    \A i \in 1..Len(requests) :
        /\ requests[i].url = url
        /\ DOMAIN requests[i].params =
               {"sellToken", "buyToken", "sellAmount", "takerAddress",
                "slippagePercentage", "gasPrice"}
        /\ requests[i].params.sellToken = sellToken
        /\ requests[i].params.buyToken = buyToken
        /\ requests[i].params.sellAmount = toString(amountToSellInBaseUnits)
        /\ requests[i].params.takerAddress = fromAddress
        /\ requests[i].params.slippagePercentage = "0.01"
        /\ requests[i].params.gasPrice = <<8, 0, 0, 0, 0, 0, 0, 0, 0, 0>>

\* C5: when an awaited call fails, the invocation is over, rejected with the
\* very error the call raised, and the failed call is the last thing it did: a
\* failed quote request is the only quote request and no transaction is sent; a
\* failed approval is followed by no quote request and no transaction.
C5_ErrorsPropagateUnchangedAndStop ==
    raised # NoError
        => /\ pc = "done"
           /\ outcome = "rejected"
           /\ error = raised
           /\ trace[Len(trace)][2] = "failed"
           /\ Count("get", "issued") <= 1
           /\ Happened("get", "failed") => (Len(requests) = 1 /\ sent = <<>>)
           /\ Happened("approve", "failed") => (requests = <<>> /\ sent = <<>>)
           /\ Happened("sendTransaction", "failed") => Len(sent) = 1

C5_Witness ==
    /\ Happened("get", "failed")
    /\ raised = "TransportError"
    /\ Len(requests) = 1

\* C6: once the quote response has arrived, exactly one transaction has been
\* submitted, right after the response, with from, to, data, gas, gasPrice and
\* value equal to the response's fields, whatever the order list; no transaction
\* is submitted before; and when the submission succeeds the invocation resolves.
C6_OneTransactionFromTheQuote ==
    /\ Len(sent) <= 1
    /\ ~Happened("get", "ok") => sent = <<>>
    /\ Happened("get", "ok")
        => /\ Len(sent) = 1
           /\ sent[1] = [from |-> httpResponse.from, to |-> httpResponse.to,
                         data |-> httpResponse.data, gas |-> httpResponse.gas,
                         gasPrice |-> httpResponse.gasPrice,
                         value |-> httpResponse.value]
           /\ \E i \in 1..(Len(trace) - 1) :
                /\ trace[i] = Event("get", "ok")
                /\ trace[i + 1] = Event("sendTransaction", "issued")
    /\ Happened("sendTransaction", "ok")
        => (pc = "done" /\ outcome = "resolved" /\ error = NoError)

C6_Witness ==
    /\ Happened("sendTransaction", "ok")
    /\ httpResponse.orders = <<>>
    /\ httpResponse.from = "0xForwarder"
    /\ outcome = "resolved"

\* C8: when the approval succeeded and a later call of the same invocation
\* failed, the allowance is still the approved amount and the invocation has
\* written nothing to the chain after the failure: one approval, and a
\* transaction submission only if it is the call that failed.
C8_NoCompensationAfterFailure ==
    (Happened("approve", "ok") /\ raised # NoError)
        => /\ allowance[<<sellToken, fromAddress>>] = approvals[1].amount
           /\ Len(approvals) = 1
           /\ Count("approve", "issued") = 1
           /\ Len(sent) = (IF Happened("sendTransaction", "failed") THEN 1 ELSE 0)

C8_Witness ==
    /\ Happened("approve", "ok")
    /\ Happened("get", "failed")
    /\ allowance[<<sellToken, fromAddress>>] = Fallback(sellToken)

\* C9: an invocation for more than 300 units with sufficient balance that reads
\* the allowance a previous approval left (300 * 10^decimals) and reaches the
\* quote request has submitted an approval.
C9_AboveFallbackAlwaysReapproves ==
    (/\ invocations >= 2
     /\ amountToSellUnitAmount > 300
     /\ amountToSellInBaseUnits <= sellTokenBalanceInBaseUnit
     /\ Happened("get", "issued")
     /\ currentAllowanceInBaseUnitAmount = Fallback(sellToken))
        => Len(approvals) = 1

\* C10: whenever the required base-unit amount is at most the balance read, the
\* balance check passes: the invocation does not report insufficient funds.
C10_SufficientBalancePassesTheCheck ==
    (BalanceChecked /\ amountToSellInBaseUnits <= sellTokenBalanceInBaseUnit)
        => ~ReportedInsufficientFunds

====
